---- MODULE Spec2Model ----
(* Model of the cartelera backend: the three server programs of the       *)
(* repository (server.js and its two earlier variants), their request     *)
(* handlers, the login/cine tables of the MySQL store and the FTP store.   *)
EXTENDS Integers, Sequences, FiniteSets, TLC

(* ---------------------------------------------------------------------- *)
(* Bounds                                                                  *)
(* ---------------------------------------------------------------------- *)
\* total number of requests received in one behaviour
MaxRequests == 2
\* largest value of the millisecond clock read by Date.now()
MaxClock == 1

(* ---------------------------------------------------------------------- *)
(* Strings: sequences of one-character strings, with their byte codes      *)
(* ---------------------------------------------------------------------- *)
\* the value of a missing property or array element
Undefined == << "undefined" >>
ReplacementChar == "?"

CharTable ==
  << <<"0", 48>>, <<"1", 49>>, <<"2", 50>>, <<"3", 51>>, <<"4", 52>>,
     <<"5", 53>>, <<"6", 54>>, <<"7", 55>>, <<"8", 56>>, <<"9", 57>>,
     <<":", 58>>, <<"a", 97>>, <<"b", 98>>, <<"c", 99>>, <<"p", 112>>,
     <<"q", 113>>, <<"z", 122>>, <<"_", 95>>, <<"?", 63>> >>

CharCode(c) ==
  LET i == CHOOSE k \in 1..Len(CharTable) : CharTable[k][1] = c
  IN  CharTable[i][2]

CharOf(b) ==
  IF \E k \in 1..Len(CharTable) : CharTable[k][2] = b
  THEN LET i == CHOOSE k \in 1..Len(CharTable) : CharTable[k][2] = b
       IN  CharTable[i][1]
  ELSE ReplacementChar

\* Buffer.from(str): the bytes of an (ASCII) string
BytesOf(s) == [i \in 1..Len(s) |-> CharCode(s[i])]

\* buf.toString('utf-8'): bytes above 127 are not valid on their own
Utf8ToString(bs) ==
  [i \in 1..Len(bs) |-> IF bs[i] < 128 THEN CharOf(bs[i]) ELSE ReplacementChar]

\* `${n}` for a non-negative integer
RECURSIVE NumToString(_)
NumToString(n) ==
  IF n < 10 THEN << CharOf(48 + n) >>
  ELSE NumToString(n \div 10) \o << CharOf(48 + (n % 10)) >>

IsDigit(c) == c \in {"0", "1", "2", "3", "4", "5", "6", "7", "8", "9"}

\* MySQL's cast of a string to a number when it is compared with an INT
\* column: the leading digits, 0 when there are none
RECURSIVE MySQLNumAcc(_, _)
MySQLNumAcc(s, acc) ==
  IF s = << >> \/ ~IsDigit(Head(s)) THEN acc
  ELSE MySQLNumAcc(Tail(s), acc * 10 + (CharCode(Head(s)) - 48))

MySQLNum(s) == MySQLNumAcc(s, 0)

\* String.prototype.split(sep) for a one-character separator
RECURSIVE SplitAcc(_, _, _, _)
SplitAcc(s, sep, cur, out) ==
  IF s = << >> THEN Append(out, cur)
  ELSE IF Head(s) = sep THEN SplitAcc(Tail(s), sep, << >>, Append(out, cur))
  ELSE SplitAcc(Tail(s), sep, Append(cur, Head(s)), out)

Split(s, sep) == SplitAcc(s, sep, << >>, << >>)

(* ---------------------------------------------------------------------- *)
(* base64                                                                  *)
(* ---------------------------------------------------------------------- *)
PadChar == "="

Base64Alphabet ==
  << "A", "B", "C", "D", "E", "F", "G", "H", "I", "J", "K", "L", "M",
     "N", "O", "P", "Q", "R", "S", "T", "U", "V", "W", "X", "Y", "Z",
     "a", "b", "c", "d", "e", "f", "g", "h", "i", "j", "k", "l", "m",
     "n", "o", "p", "q", "r", "s", "t", "u", "v", "w", "x", "y", "z",
     "0", "1", "2", "3", "4", "5", "6", "7", "8", "9", "+", "/" >>

SextetChar(n) == Base64Alphabet[n + 1]

IsBase64Char(c) == \E k \in 1..64 : Base64Alphabet[k] = c

SextetOf(c) == (CHOOSE k \in 1..64 : Base64Alphabet[k] = c) - 1

\* buf.toString('base64')
RECURSIVE Base64Encode(_)
Base64Encode(bs) ==
  IF Len(bs) = 0 THEN << >>
  ELSE IF Len(bs) = 1 THEN
    << SextetChar(bs[1] \div 4), SextetChar((bs[1] % 4) * 16), PadChar, PadChar >>
  ELSE IF Len(bs) = 2 THEN
    << SextetChar(bs[1] \div 4),
       SextetChar((bs[1] % 4) * 16 + (bs[2] \div 16)),
       SextetChar((bs[2] % 16) * 4), PadChar >>
  ELSE
    << SextetChar(bs[1] \div 4),
       SextetChar((bs[1] % 4) * 16 + (bs[2] \div 16)),
       SextetChar((bs[2] % 16) * 4 + (bs[3] \div 64)),
       SextetChar(bs[3] % 64) >> \o Base64Encode(SubSeq(bs, 4, Len(bs)))

\* the sextets of a base64 text: it ends at the first '=', and characters
\* outside the alphabet are skipped
RECURSIVE Sextets(_)
Sextets(t) ==
  IF t = << >> \/ Head(t) = PadChar THEN << >>
  ELSE IF IsBase64Char(Head(t)) THEN << SextetOf(Head(t)) >> \o Sextets(Tail(t))
  ELSE Sextets(Tail(t))

RECURSIVE DecodeSextets(_)
DecodeSextets(t) ==
  IF Len(t) < 2 THEN << >>
  ELSE IF Len(t) = 2 THEN << t[1] * 4 + (t[2] \div 16) >>
  ELSE IF Len(t) = 3 THEN
    << t[1] * 4 + (t[2] \div 16), (t[2] % 16) * 16 + (t[3] \div 4) >>
  ELSE
    << t[1] * 4 + (t[2] \div 16),
       (t[2] % 16) * 16 + (t[3] \div 4),
       (t[3] % 4) * 64 + t[4] >> \o DecodeSextets(SubSeq(t, 5, Len(t)))

\* Buffer.from(text, 'base64'): lenient, never throws
Base64Decode(t) == DecodeSextets(Sextets(t))

(* ---------------------------------------------------------------------- *)
(* Sanitizer and validators                                                *)
(* ---------------------------------------------------------------------- *)
\* xss(text): markup delimiters outside the whitelist are escaped
RECURSIVE xss(_)
xss(s) ==
  IF s = << >> THEN << >>
  ELSE IF Head(s) = "<" THEN << "&", "l", "t", ";" >> \o xss(Tail(s))
  ELSE IF Head(s) = ">" THEN << "&", "g", "t", ";" >> \o xss(Tail(s))
  ELSE << Head(s) >> \o xss(Tail(s))

\* !x for a string-valued or missing property
Falsy(x) == x = Undefined \/ x = << >>

IsLetter(c) == c \in {"a", "b", "c", "p", "q", "z"}

\* isValidUrl(url): new URL(url) accepts a text that starts with a scheme
\* (a letter, then letters or digits, then ':'); the fallback pattern asks
\* for http, https or ftp, which are schemes too
isValidUrl(url) ==
  \E k \in 2..Len(url) :
    /\ url[k] = ":"
    /\ IsLetter(url[1])
    /\ \A j \in 1..(k - 1) : IsLetter(url[j]) \/ IsDigit(url[j])

\* parseInt(text): the leading digits (NaN, here -1, when there are none)
parseInt(s) == IF s # << >> /\ IsDigit(Head(s)) THEN MySQLNum(s) ELSE -1

(* ---------------------------------------------------------------------- *)
(* The programs, their routes and the data they start with                 *)
(* ---------------------------------------------------------------------- *)
\* the three server programs of the repository
Apps == {"server", "part_000", "part_001"}

FtpRoutes == {"upload", "list", "delete"}
MovieWriteRoutes == {"moviesPost", "moviesPut", "moviesDelete"}
AllRoutes == FtpRoutes \cup MovieWriteRoutes \cup {"moviesGet", "login"}

\* the routes each program registers
Routes(a) ==
  IF a = "part_001" THEN {"upload", "login", "moviesGet"} ELSE AllRoutes

ProtectedMissingDelete(a) ==
  IF a = "server" THEN (FtpRoutes \cup MovieWriteRoutes) \ {"moviesDelete"} ELSE {}

\* the routes registered with authMiddleware in front of the handler
Protected(a) ==
  IF a = "server" THEN FtpRoutes \cup MovieWriteRoutes ELSE {}

\* whether the upload handler prefixes the stored name with Date.now()
TimestampPrefix(a) == a = "part_001"

RequiredFields ==
  {"strNombre", "strGenero", "strSinapsis", "strHorario", "idSala", "strImagen"}

BodyFields == RequiredFields \cup {"strTrailerURL", "strPwd", "fileName"}

EmptyBody == [f \in BodyFields |-> Undefined]

FullMovie ==
  [EmptyBody EXCEPT !["strNombre"] = << "a" >>, !["strGenero"] = << "b" >>,
                    !["strSinapsis"] = << "<", "c" >>, !["strHorario"] = << "1" >>,
                    !["idSala"] = << "2" >>, !["strImagen"] = << "c" >>,
                    !["strTrailerURL"] = << "a", ":", "b" >>]

\* request bodies for POST /movies and PUT /movies/:id
MovieBodies ==
  {FullMovie}
    \cup {[FullMovie EXCEPT ![f] = Undefined] : f \in RequiredFields}
    \cup {[FullMovie EXCEPT !["strTrailerURL"] = << "z" >>]}

\* request bodies for POST /login
LoginBodies ==
  {[EmptyBody EXCEPT !["strNombre"] = c[1], !["strPwd"] = c[2]] :
     c \in { << << "a" >>, << "p" >> >>, << << "a" >>, << "z" >> >>,
             << << "b" >>, << "q" >> >>, << << "a", ":", "b" >>, << "q" >> >>,
             << Undefined, << "p" >> >>, << << "a" >>, Undefined >> }}

DeleteBodies ==
  {[EmptyBody EXCEPT !["fileName"] = n] : n \in {Undefined, << "a" >>}}

FileNames == {Undefined, << "a" >>, << "b" >>}

MovieIdParams == {<< "4", "2" >>}

\* the login table: id -> row
InitLogin ==
  (1 :> [strNombre |-> << "a" >>, strPwd |-> << "p" >>, idEstadoUsuario |-> 1, rol |-> "admin"])
  @@ (2 :> [strNombre |-> << "b" >>, strPwd |-> << "q" >>, idEstadoUsuario |-> 1, rol |-> "user"])
  @@ (3 :> [strNombre |-> << "a", ":", "b" >>, strPwd |-> << "q" >>, idEstadoUsuario |-> 1, rol |-> "user"])

\* the row a handler writes to the cine table
MovieRow(b, sala) ==
  [strNombre |-> b.strNombre, strGenero |-> b.strGenero, strSinapsis |-> b.strSinapsis,
   strHorario |-> b.strHorario, idSala |-> sala, strImagen |-> b.strImagen,
   strTrailerURL |-> b.strTrailerURL]

InitCine == 42 :> MovieRow(FullMovie, 2)

\* FTP_BASE_PATH
BasePath == << "/", "u" >>

\* `${id}:${strNombre}` in base64, as POST /login builds it
EncodeToken(id, nombre) == Base64Encode(BytesOf(NumToString(id) \o << ":" >> \o nombre))

Bearer == << "B", "e", "a", "r", "e", "r" >>

\* the Authorization header as the words between its spaces
NoHeader == << Undefined >>

BearerHeader(tok) == << Bearer, tok >>

\* credentials a client can present: the ones /login would build for the
\* three records, one for a pair the table does not hold, one without ':'
TokenInputs ==
  {EncodeToken(1, << "a" >>), EncodeToken(2, << "b" >>),
   EncodeToken(3, << "a", ":", "b" >>), EncodeToken(1, << "b" >>),
   Base64Encode(BytesOf(<< "z" >>))}

Headers == {NoHeader} \cup {BearerHeader(t) : t \in TokenInputs}

(* ---------------------------------------------------------------------- *)
(* State                                                                   *)
(* ---------------------------------------------------------------------- *)
VARIABLES
  app,        \* the program that is running
  login,      \* the login table: id -> row
  cine,       \* the cine table: id -> row
  nextId,     \* AUTO_INCREMENT of the cine table
  ftpFiles,   \* the remote paths present on the FTP store
  openConns,  \* FTP connections that are open
  clock,      \* Date.now()
  req,        \* the requests in flight, one per slot
  received,   \* requests received so far
  issued,     \* <<credential, id>> pairs returned by /login so far
  changed     \* ids of login rows changed from outside so far

vars == << app, login, cine, nextId, ftpFiles, openConns, clock, req, received,
           issued, changed >>

\* the requests in flight at the same time: a pair, which is enough for every
\* interleaving of two handlers
Slots == {1, 2}

\* a free slot; the fields below the inputs record what the request did
Idle ==
  [pc |-> "idle", route |-> "none", header |-> NoHeader, body |-> EmptyBody,
   file |-> Undefined, param |-> Undefined,
   status |-> 0, user |-> << Undefined, Undefined >>, path |-> Undefined, token |-> Undefined,
   authOK |-> FALSE,      \* authMiddleware called next()
   authRow |-> 0,         \* id of the row the credential lookup returned
   authEstado |-> 0,      \* idEstadoUsuario of that row at the lookup
   fault |-> FALSE,       \* the database or the FTP store raised a fault
   wrote |-> FALSE,       \* an INSERT, UPDATE or DELETE was executed
   listed |-> FALSE,      \* a listing of the remote directory was read
   conn |-> "none"]       \* this request's FTP client

Init ==
  /\ app \in Apps
  /\ login = InitLogin
  /\ cine = InitCine
  /\ nextId = 43
  /\ ftpFiles = {BasePath \o << "/" >> \o << "a" >>}
  /\ openConns = 0
  /\ clock = 0
  /\ req = [r \in Slots |-> Idle]
  /\ received = 0
  /\ issued = {}
  /\ changed = {}

(* ---------------------------------------------------------------------- *)
(* Synchronous parts of the handlers                                       *)
(* ---------------------------------------------------------------------- *)
\* res.status(st).send(...)
Respond(rq, st) == [rq EXCEPT !.pc = "done", !.status = st]

\* req.headers.authorization?.split(' ')[1]
HeaderToken(h) ==
  IF h = NoHeader THEN Undefined
  ELSE IF Len(h) >= 2 THEN h[2] ELSE Undefined

\* const [userId, userName] = decoded.split(':')
DecodedPair(tok) ==
  LET parts == Split(Utf8ToString(Base64Decode(tok)), ":")
  IN  << parts[1], IF Len(parts) >= 2 THEN parts[2] ELSE Undefined >>

AuthLookupByIdOnly(tbl, userId, userName) ==
  {id \in DOMAIN tbl : id = MySQLNum(userId)}

\* SELECT id FROM login WHERE id = ? AND strNombre = ?
AuthLookup(tbl, userId, userName) ==
  {id \in DOMAIN tbl : id = MySQLNum(userId) /\ tbl[id].strNombre = userName}

LoginLookupAnyEstado(tbl, nombre, pwd) ==
  {id \in DOMAIN tbl : tbl[id].strNombre = nombre /\ tbl[id].strPwd = pwd}

\* SELECT ... FROM login WHERE strNombre = ? AND strPwd = ? AND idEstadoUsuario = 1
LoginLookup(tbl, nombre, pwd) ==
  {id \in DOMAIN tbl :
     /\ tbl[id].strNombre = nombre
     /\ tbl[id].strPwd = pwd
     /\ tbl[id].idEstadoUsuario = 1}

MissingRequiredForgetsImagen(b) ==
  \E f \in RequiredFields \ {"strImagen"} : Falsy(b[f])

\* the check of the required fields of a movie
MissingRequired(b) == \E f \in RequiredFields : Falsy(b[f])

\* the part of a route handler that runs before its first callback or await
HandlerStart(a, rq) ==
  CASE rq.route = "upload" ->
         IF rq.file = Undefined THEN Respond(rq, 400)
         ELSE [rq EXCEPT !.pc = "ftpAccess", !.conn = "connecting"]
    [] rq.route = "list" ->
         [rq EXCEPT !.pc = "ftpAccess", !.conn = "connecting"]
    [] rq.route = "delete" ->
         IF Falsy(rq.body.fileName) THEN Respond(rq, 400)
         ELSE [rq EXCEPT !.pc = "ftpAccess", !.conn = "connecting"]
    [] rq.route = "moviesGet" -> [rq EXCEPT !.pc = "dbWait"]
    [] rq.route \in {"moviesPost", "moviesPut"} ->
         IF MissingRequired(rq.body) THEN Respond(rq, 400)
         ELSE IF a = "server" /\ ~Falsy(rq.body.strTrailerURL)
                 /\ ~isValidUrl(rq.body.strTrailerURL) THEN Respond(rq, 400)
         ELSE [rq EXCEPT !.pc = "dbWait"]
    [] rq.route = "moviesDelete" -> [rq EXCEPT !.pc = "dbWait"]
    [] rq.route = "login" ->
         IF Falsy(rq.body.strNombre) \/ Falsy(rq.body.strPwd) THEN Respond(rq, 400)
         ELSE [rq EXCEPT !.pc = "dbWait"]

\* authMiddleware up to the moment it has issued its query
AuthStart(rq) ==
  IF Falsy(HeaderToken(rq.header)) THEN Respond(rq, 401)
  ELSE [rq EXCEPT !.pc = "auth"]

(* ---------------------------------------------------------------------- *)
(* Actions                                                                 *)
(* ---------------------------------------------------------------------- *)
\* a handler sends its response and returns in the turn of the event loop in
\* which it took its last step: nothing else runs before the request is over
Running == \A q \in Slots : req[q].pc # "done"

\* the header of a client logged in as the first user
ValidHeader == BearerHeader(EncodeToken(1, << "a" >>))

Input(h, b, f, p) == [header |-> h, body |-> b, file |-> f, param |-> p]

\* the header of a client logged in as the second user
UserHeader == BearerHeader(EncodeToken(2, << "b" >>))

\* the requests a client sends to a route: every header with a well-formed
\* request, and every request body, file and parameter with a valid header
\* (a route without authMiddleware never reads the header; the file routes
\* are tried with one logged-in user, the record routes with both)
InputsFor(a, route) ==
  LET hs == IF route \in Protected(a)
            THEN (IF route \in FtpRoutes THEN Headers \ {UserHeader} ELSE Headers)
            ELSE {NoHeader}
      h0 == IF route \in Protected(a) THEN ValidHeader ELSE NoHeader
  IN
  CASE route = "upload" ->
         {Input(h, EmptyBody, << "a" >>, Undefined) : h \in hs}
           \cup {Input(h0, EmptyBody, f, Undefined) : f \in FileNames}
    [] route = "delete" ->
         {Input(h, [EmptyBody EXCEPT !["fileName"] = << "a" >>], Undefined, Undefined) : h \in hs}
           \cup {Input(h0, b, Undefined, Undefined) : b \in DeleteBodies}
    [] route = "moviesPost" ->
         {Input(h, FullMovie, Undefined, Undefined) : h \in hs}
           \cup {Input(h0, b, Undefined, Undefined) : b \in MovieBodies}
    [] route = "moviesPut" ->
         {Input(h, FullMovie, Undefined, p) : h \in hs, p \in MovieIdParams}
           \cup {Input(h0, b, Undefined, p) : b \in MovieBodies, p \in MovieIdParams}
    [] route = "moviesDelete" ->
         {Input(h, EmptyBody, Undefined, p) : h \in hs, p \in MovieIdParams}
    [] route = "login" ->
         {Input(NoHeader, b, Undefined, Undefined) : b \in LoginBodies}
    [] OTHER ->
         {Input(h, EmptyBody, Undefined, Undefined) : h \in hs}

\* a request arrives and express runs the chain up to the first callback
Receive(r) ==
  /\ Running
  /\ req[r].pc = "idle"
  /\ \A q \in Slots : q < r => req[q].pc # "idle"
  /\ received < MaxRequests
  /\ \E route \in Routes(app) :
       \E in \in InputsFor(app, route) :
         LET rq == [Idle EXCEPT !.pc = "chain", !.route = route, !.header = in.header,
                                !.body = in.body, !.file = in.file, !.param = in.param]
         IN  req' = [req EXCEPT ![r] =
                       IF route \in Protected(app) THEN AuthStart(rq)
                       ELSE HandlerStart(app, rq)]
  /\ received' = received + 1
  /\ UNCHANGED << app, login, cine, nextId, ftpFiles, openConns, clock, issued, changed >>

\* the callback of authMiddleware's query
AuthQueryDone(r) ==
  /\ Running
  /\ req[r].pc = "auth"
  /\ \E err \in BOOLEAN :
       LET pair == DecodedPair(HeaderToken(req[r].header))
           results == AuthLookup(login, pair[1], pair[2])
           rq == [req[r] EXCEPT !.fault = err]
       IN  IF err \/ results = {} THEN req' = [req EXCEPT ![r] = Respond(rq, 401)]
           ELSE \E id \in results :
                  req' = [req EXCEPT ![r] =
                    HandlerStart(app, [rq EXCEPT !.user = pair, !.authOK = TRUE,
                                                 !.authRow = id,
                                                 !.authEstado = login[id].idEstadoUsuario])]
  /\ UNCHANGED << app, login, cine, nextId, ftpFiles, openConns, clock, received,
                  issued, changed >>

\* the values bound to the INSERT and UPDATE statements
SanitizedRow(a, b, old) ==
  IF a = "server" THEN
    [strNombre |-> xss(b.strNombre), strGenero |-> xss(b.strGenero),
     strSinapsis |-> xss(b.strSinapsis), strHorario |-> xss(b.strHorario),
     idSala |-> parseInt(b.idSala), strImagen |-> xss(b.strImagen),
     strTrailerURL |-> IF Falsy(b.strTrailerURL) THEN Undefined ELSE xss(b.strTrailerURL)]
  ELSE
    [strNombre |-> xss(b.strNombre), strGenero |-> xss(b.strGenero),
     strSinapsis |-> xss(b.strSinapsis), strHorario |-> xss(b.strHorario),
     idSala |-> MySQLNum(b.idSala), strImagen |-> xss(b.strImagen),
     strTrailerURL |-> old]

\* the credentials bound to the login query
LoginParams(a, b) ==
  IF a = "part_001" THEN << xss(b.strNombre), xss(b.strPwd) >>
  ELSE << b.strNombre, b.strPwd >>

\* the callback of a route handler's query
DbQueryDone(r) ==
  /\ Running
  /\ req[r].pc = "dbWait"
  /\ LET rq == req[r] IN
     \E err \in BOOLEAN :
       IF err THEN
         /\ req' = [req EXCEPT ![r] = Respond([rq EXCEPT !.fault = TRUE], 500)]
         /\ UNCHANGED << cine, nextId, issued >>
       ELSE
         CASE rq.route = "moviesGet" ->
                /\ req' = [req EXCEPT ![r] = Respond(rq, 200)]
                /\ UNCHANGED << cine, nextId, issued >>
           [] rq.route = "moviesPost" ->
                /\ cine' = cine @@ (nextId :> SanitizedRow(app, rq.body, Undefined))
                /\ nextId' = nextId + 1
                /\ req' = [req EXCEPT ![r] = Respond([rq EXCEPT !.wrote = TRUE], 201)]
                /\ UNCHANGED issued
           [] rq.route = "moviesPut" ->
                LET id == MySQLNum(rq.param) IN
                /\ cine' = IF id \in DOMAIN cine
                           THEN [cine EXCEPT ![id] =
                                   SanitizedRow(app, rq.body, cine[id].strTrailerURL)]
                           ELSE cine
                /\ req' = [req EXCEPT ![r] = Respond([rq EXCEPT !.wrote = TRUE], 200)]
                /\ UNCHANGED << nextId, issued >>
           [] rq.route = "moviesDelete" ->
                LET id == MySQLNum(rq.param) IN
                /\ cine' = [k \in DOMAIN cine \ {id} |-> cine[k]]
                /\ req' = [req EXCEPT ![r] = Respond([rq EXCEPT !.wrote = TRUE], 200)]
                /\ UNCHANGED << nextId, issued >>
           [] rq.route = "login" ->
                LET params == LoginParams(app, rq.body)
                    results == LoginLookup(login, params[1], params[2])
                IN  IF results = {} THEN
                      /\ req' = [req EXCEPT ![r] = Respond(rq, 401)]
                      /\ UNCHANGED << cine, nextId, issued >>
                    ELSE
                      \E id \in results :
                        LET fakeToken == EncodeToken(id, login[id].strNombre) IN
                        /\ IF app = "server" THEN
                             /\ req' = [req EXCEPT ![r] =
                                          Respond([rq EXCEPT !.token = fakeToken], 200)]
                             /\ issued' = issued \cup {<< fakeToken, id >>}
                           ELSE
                             /\ req' = [req EXCEPT ![r] = Respond(rq, 200)]
                             /\ UNCHANGED issued
                        /\ UNCHANGED << cine, nextId >>
  /\ UNCHANGED << app, login, ftpFiles, openConns, clock, received, changed >>

\* what an FTP command can come back with: success, an error reply of the
\* server (the connection stays up), or a socket error (the connection is gone)
FtpOutcomes == {"ok", "reply", "socket"}

\* the remote path the upload handler builds
UploadPath(a, now, originalname) ==
  IF TimestampPrefix(a)
  THEN BasePath \o << "/" >> \o NumToString(now) \o << "_" >> \o originalname
  ELSE BasePath \o << "/" >> \o originalname

\* await client.access(FTP_CONFIG)
FtpAccessDone(r) ==
  /\ Running
  /\ req[r].pc = "ftpAccess"
  /\ LET rq == req[r] IN
     \E out \in FtpOutcomes :
       CASE out = "ok" ->
              /\ req' = [req EXCEPT ![r] =
                   [rq EXCEPT !.conn = "open",
                              !.pc = IF rq.route = "delete" THEN "ftpXfer" ELSE "ftpDir",
                              !.path = IF rq.route = "delete"
                                       THEN BasePath \o << "/" >> \o rq.body.fileName
                                       ELSE Undefined]]
              /\ openConns' = openConns + 1
         [] out = "reply" ->
              /\ req' = [req EXCEPT ![r] =
                   Respond([rq EXCEPT !.conn = "open", !.fault = TRUE], 500)]
              /\ openConns' = openConns + 1
         [] out = "socket" ->
              /\ req' = [req EXCEPT ![r] =
                   Respond([rq EXCEPT !.conn = "closed", !.fault = TRUE], 500)]
              /\ UNCHANGED openConns
  /\ UNCHANGED << app, login, cine, nextId, ftpFiles, clock, received, issued, changed >>

\* await client.ensureDir(FTP_BASE_PATH) / await client.cd(FTP_BASE_PATH)
FtpDirDone(r) ==
  /\ Running
  /\ req[r].pc = "ftpDir"
  /\ LET rq == req[r] IN
     \E out \in FtpOutcomes :
       CASE out = "ok" ->
              /\ req' = [req EXCEPT ![r] =
                   [rq EXCEPT !.pc = "ftpXfer",
                              !.path = IF rq.route = "upload"
                                       THEN UploadPath(app, clock, rq.file)
                                       ELSE Undefined]]
              /\ UNCHANGED openConns
         [] out = "reply" ->
              /\ req' = [req EXCEPT ![r] = Respond([rq EXCEPT !.fault = TRUE], 500)]
              /\ UNCHANGED openConns
         [] out = "socket" ->
              /\ req' = [req EXCEPT ![r] =
                   Respond([rq EXCEPT !.conn = "closed", !.fault = TRUE], 500)]
              /\ openConns' = openConns - 1
  /\ UNCHANGED << app, login, cine, nextId, ftpFiles, clock, received, issued, changed >>

\* await client.uploadFrom(...) / client.list() / client.remove(...), and on
\* success client.close() and the response
FtpXferDone(r) ==
  /\ Running
  /\ req[r].pc = "ftpXfer"
  /\ LET rq == req[r] IN
     \E out \in FtpOutcomes :
       CASE out = "ok" ->
              /\ rq.route = "delete" => rq.path \in ftpFiles
              /\ ftpFiles' = CASE rq.route = "upload" -> ftpFiles \cup {rq.path}
                               [] rq.route = "delete" -> ftpFiles \ {rq.path}
                               [] OTHER -> ftpFiles
              /\ req' = [req EXCEPT ![r] =
                   Respond([rq EXCEPT !.conn = "closed",
                                      !.listed = (rq.route = "list")], 200)]
              /\ openConns' = openConns - 1
         [] out = "reply" ->
              /\ req' = [req EXCEPT ![r] = Respond([rq EXCEPT !.fault = TRUE], 500)]
              /\ UNCHANGED << ftpFiles, openConns >>
         [] out = "socket" ->
              /\ req' = [req EXCEPT ![r] =
                   Respond([rq EXCEPT !.conn = "closed", !.fault = TRUE], 500)]
              /\ openConns' = openConns - 1
              /\ UNCHANGED ftpFiles
  /\ UNCHANGED << app, login, cine, nextId, clock, received, issued, changed >>

\* the response has been sent and the request object is dropped
Finish(r) ==
  /\ req[r].pc = "done"
  /\ req' = [req EXCEPT ![r] = Idle]
  /\ UNCHANGED << app, login, cine, nextId, ftpFiles, openConns, clock, received,
                  issued, changed >>

\* a millisecond passes (only the upload handler that stamps its files reads
\* the clock)
Tick ==
  /\ Running
  /\ TimestampPrefix(app)
  /\ clock < MaxClock
  /\ clock' = clock + 1
  /\ UNCHANGED << app, login, cine, nextId, ftpFiles, openConns, req, received,
                  issued, changed >>

\* the login table is maintained from outside: a user is deactivated
SetInactive(id) ==
  /\ Running
  /\ id \in DOMAIN login
  /\ login[id].idEstadoUsuario = 1
  /\ login' = [login EXCEPT ![id].idEstadoUsuario = 0]
  /\ changed' = changed \cup {id}
  /\ UNCHANGED << app, cine, nextId, ftpFiles, openConns, clock, req, received, issued >>

\* ... or removed
RemoveUser(id) ==
  /\ Running
  /\ id \in DOMAIN login
  /\ login' = [k \in DOMAIN login \ {id} |-> login[k]]
  /\ changed' = changed \cup {id}
  /\ UNCHANGED << app, cine, nextId, ftpFiles, openConns, clock, req, received, issued >>

\* the rows that are changed from outside
ChangeableIds == {2}

Next ==
  \/ \E r \in Slots : Receive(r)
  \/ \E r \in Slots : AuthQueryDone(r)
  \/ \E r \in Slots : DbQueryDone(r)
  \/ \E r \in Slots : FtpAccessDone(r)
  \/ \E r \in Slots : FtpDirDone(r)
  \/ \E r \in Slots : FtpXferDone(r)
  \/ \E r \in Slots : Finish(r)
  \/ Tick
  \/ \E id \in ChangeableIds : SetInactive(id)
  \/ \E id \in ChangeableIds : RemoveUser(id)

Spec == Init /\ [][Next]_vars

TypeOK ==
  /\ app \in Apps
  /\ openConns \in 0..MaxRequests
  /\ clock \in 0..MaxClock
  /\ received \in 0..MaxRequests
  /\ \A r \in Slots :
       req[r].pc \in {"idle", "auth", "dbWait", "ftpAccess", "ftpDir", "ftpXfer", "done"}

(* ---------------------------------------------------------------------- *)
(* Properties                                                              *)
(* ---------------------------------------------------------------------- *)
\* the credential a request carries, and the pair authMiddleware reads in it
TokenOf(rq) == HeaderToken(rq.header)

PairOf(rq) == DecodedPair(TokenOf(rq))

HasToken(rq) == rq.header # NoHeader /\ TokenOf(rq) # Undefined /\ TokenOf(rq) # << >>

\* the login table holds no row with this id (by its numeric value, as the
\* store compares it) and this identity
NoRecordFor(tbl, pair) ==
  \A id \in DOMAIN tbl : ~(id = MySQLNum(pair[1]) /\ tbl[id].strNombre = pair[2])

\* the role the specification calls privileged
PrivilegedRole == "admin"

\* a required field is absent from the body
FieldAbsent(b) == \E f \in RequiredFields : b[f] = Undefined

\* C1: in server.js, a request that carries a credential /login returned for
\* a row that has not been changed since passes authMiddleware (unless the
\* store faults during the lookup), whatever the identity of the row
C1_IssuedCredentialPasses ==
  \A r \in Slots :
    LET rq == req[r] IN
    ( /\ app = "server"
      /\ rq.pc \notin {"idle", "auth"}
      /\ rq.route \in FtpRoutes \cup MovieWriteRoutes
      /\ \E id \in DOMAIN login : << TokenOf(rq), id >> \in issued /\ id \notin changed )
    => (rq.authOK \/ rq.fault)

\* C2: when the credential lookup of authMiddleware runs for a pair that the
\* login table does not hold, the request ends there with 401: next() is not
\* called, nothing is written and no FTP client is created
C2_UnknownPairRejected ==
  [][ \A r \in Slots :
        ( /\ req[r].pc = "auth"
          /\ req'[r].pc # "auth"
          /\ NoRecordFor(login, PairOf(req[r])) )
        => ( /\ req'[r].pc = "done"
             /\ req'[r].status = 401
             /\ ~req'[r].authOK
             /\ ~req'[r].wrote
             /\ req'[r].conn = "none"
             /\ cine' = cine
             /\ ftpFiles' = ftpFiles
             /\ openConns' = openConns ) ]_vars

C2_Witness ==
  \E r \in Slots :
    /\ req[r].pc = "done"
    /\ req[r].status = 401
    /\ HasToken(req[r])
    /\ ~req[r].fault
    /\ NoRecordFor(login, PairOf(req[r]))
    /\ MySQLNum(PairOf(req[r])[1]) \in DOMAIN login

C4_FtpOnlyAfterAuth ==
  \A r \in Slots : req[r].conn # "none" => req[r].authOK

\* C5: a POST /movies or DELETE /movies/:id of an authenticated session whose
\* role is not the privileged one is answered 403 and writes nothing
C5_WritesNeedPrivilegedRole ==
  \A r \in Slots :
    LET rq == req[r] IN
    ( /\ rq.route \in {"moviesPost", "moviesDelete"}
      /\ rq.authOK
      /\ rq.pc = "done"
      /\ InitLogin[rq.authRow].rol # PrivilegedRole )
    => (rq.status = 403 /\ ~rq.wrote)

\* C6: a request with a credential that /login returned passes authMiddleware
\* only if the row it names is active when the lookup runs
C6_InactiveRejected ==
  \A r \in Slots :
    LET rq == req[r] IN
    (rq.authOK /\ \E id \in DOMAIN InitLogin : << TokenOf(rq), id >> \in issued)
    => rq.authEstado = 1

\* C7: a POST /movies or PUT /movies/:id that reaches its handler with a
\* required field absent is answered 400 and executes no statement
C7_MissingFieldRejected ==
  \A r \in Slots :
    LET rq == req[r] IN
    ( /\ rq.route \in {"moviesPost", "moviesPut"}
      /\ FieldAbsent(rq.body)
      /\ (app # "server" \/ rq.authOK) )
    => (rq.pc = "done" /\ rq.status = 400 /\ ~rq.wrote)

C7_Witness ==
  \E r \in Slots :
    /\ app = "server"
    /\ req[r].route = "moviesPut"
    /\ req[r].authOK
    /\ req[r].body.strImagen = Undefined
    /\ req[r].status = 400

\* C8: a request that has sent its response has no FTP connection open, and
\* when no request is in flight no FTP connection is open
C8_ConnectionsClosed ==
  /\ \A r \in Slots : req[r].pc = "done" => req[r].conn # "open"
  /\ (\A r \in Slots : req[r].pc = "idle") => openConns = 0

\* C9: two uploads in progress at the same time write different remote paths
\* when their file names differ or when the stored name is stamped
C9_DistinctPaths ==
  \A r1, r2 \in Slots :
    ( /\ r1 # r2
      /\ req[r1].route = "upload" /\ req[r1].pc = "ftpXfer"
      /\ req[r2].route = "upload" /\ req[r2].pc = "ftpXfer"
      /\ (req[r1].file # req[r2].file \/ TimestampPrefix(app)) )
    => req[r1].path # req[r2].path

\* C10: a request during which the database or the FTP store raised a fault
\* is answered 500
C10_StoreFault500 ==
  \A r \in Slots : (req[r].pc = "done" /\ req[r].fault) => req[r].status = 500

\* the active rows of the login table with this identity and this secret
ActiveRowsFor(tbl, b) ==
  {id \in DOMAIN tbl :
     /\ tbl[id].idEstadoUsuario = 1
     /\ tbl[id].strNombre = b.strNombre
     /\ tbl[id].strPwd = b.strPwd}

CredentialsAbsent(b) == b.strNombre = Undefined \/ b.strPwd = Undefined

\* C11: in server.js, POST /login answers with a credential only when the
\* login table holds an active row with the submitted identity and secret;
\* without such a row it answers 401 and no credential; with the identity or
\* the secret missing it answers 400 and issues no query
C11_LoginOnlyForActiveMatch ==
  \A r \in Slots :
    LET rq == req[r] IN
    (app = "server" /\ rq.route = "login")
    => /\ rq.pc = "dbWait" => ~CredentialsAbsent(rq.body)
       /\ rq.pc = "done" =>
            /\ rq.token # Undefined
                 => (rq.status = 200 /\ ActiveRowsFor(login, rq.body) # {})
            /\ CredentialsAbsent(rq.body)
                 => (rq.status = 400 /\ rq.token = Undefined /\ ~rq.fault)
            /\ (~CredentialsAbsent(rq.body) /\ ActiveRowsFor(login, rq.body) = {}
                  /\ ~rq.fault)
                 => (rq.status = 401 /\ rq.token = Undefined)

\* the submitted secret is the one of a row that has been deactivated
C11_Witness ==
  \E r \in Slots :
    /\ app = "server"
    /\ req[r].route = "login"
    /\ req[r].pc = "done"
    /\ req[r].status = 401
    /\ req[r].token = Undefined
    /\ \E id \in DOMAIN login :
         /\ login[id].idEstadoUsuario = 0
         /\ login[id].strNombre = req[r].body.strNombre
         /\ login[id].strPwd = req[r].body.strPwd

\* C12: the pair authMiddleware reads in a credential that /login built for a
\* row is the id and the identity of that row, and a request whose
\* credential decodes to a text without ':' is answered 401
C12_CodecRoundTrip ==
  /\ \A c \in issued :
       DecodedPair(c[1]) = << NumToString(c[2]), InitLogin[c[2]].strNombre >>
  /\ \A r \in Slots :
       ( /\ req[r].route \in FtpRoutes \cup MovieWriteRoutes
         /\ app = "server"
         /\ req[r].pc \notin {"idle", "auth"}
         /\ HasToken(req[r])
         /\ PairOf(req[r])[2] = Undefined )
       => (req[r].pc = "done" /\ req[r].status = 401 /\ ~req[r].authOK)

====
